---- MODULE Spec2Model ----
(***************************************************************************)
(* The client-side session/alert state machine of the LiveMonitoring page  *)
(* (src/vanRakhshak-client-main/src/pages/LiveMonitoring.tsx).             *)
(*                                                                         *)
(* The React component is modelled as its state (the useState cells), the  *)
(* two inputs it reads from hooks (the route parameter sensorId and the    *)
(* react-query result apiResponse), the environment it talks to            *)
(* (localStorage, the weather and inference requests in flight, the        *)
(* clock behind Date.now()), and one action per event:                     *)
(*   Render                  one commit: every effect whose dependencies   *)
(*                           changed runs, in declaration order, on the    *)
(*                           state of that render; the setState calls of   *)
(*                           the effects are applied together afterwards   *)
(*   PollDeliver             the 5 s poll stores a response                *)
(*   WeatherResolve          a getWeatherData call settles                 *)
(*   MlResolve               a predictFireWithML call settles              *)
(*   HandleManualSensorSelect, RouteChange   the user switches the sensor  *)
(* Specifications:                                                         *)
(*   Spec         the page over a working localStorage                     *)
(*   SpecExample  the end-to-end example of four readings                  *)
(*   SpecStorage  the page over a localStorage that throws                 *)
(*   SpecIngest   the reading-ingest effect over a window of readings      *)
(*   SpecReports  the Reports page (Reports.tsx) open beside the example   *)
(*   SpecUnordered  the page fed records that are not ordered in time      *)
(*   SpecSameTick   the page with two responses within one clock tick      *)
(*   SpecHung       the example with a prediction request that never       *)
(*                  resolves, under fair scheduling                        *)
(*   SpecVerification  the FireVerification page (FireVerification.tsx)    *)
(* A state cell that was set to a new reference is recorded in chg; that   *)
(* is what React compares the dependency arrays against.                   *)
(*                                                                         *)
(* Absent values: null / undefined objects are the empty sequence <<>>,    *)
(* a present object o is <<o>>; a null endTime is NullTime.                *)
(***************************************************************************)
EXTENDS Integers, Sequences, FiniteSets, TLC

VARIABLES
    sensorId,           \* useParams().sensorId ("" when the route has none)
    apiResponse,        \* useQuery(['fireAlerts', selectedSensorId]).data
    selectedSensorId,   \* useState('')
    sensorReadings,     \* useState([])   most recent first
    mlPredictions,      \* useState([])   most recent first
    isMlProcessing,     \* useState(false)
    weatherData,        \* useState(null)
    currentSession,     \* useState(null)
    activeSessions,     \* useState([])
    completedSessions,  \* useState([])
    store,              \* localStorage['fireAlertSessions'] (the JSON text)
    mlInflight,         \* predictFireWithML calls awaiting their response
    wxInflight,         \* getWeatherData calls awaiting their response
    now,                \* Date.now()
    chg,                \* state cells / inputs changed since the last commit
    view,               \* "mounted", or "crashed" once an effect has thrown
                        \*   (no error boundary: React unmounts the tree)
    faults,             \* the localStorage operations that throw:
                        \*   "read"  getItem / JSON.parse of the stored text
                        \*   "write" setItem
    reports,            \* the Reports page: <<>> while it is not open, else
                        \*   <<[sessions |-> its useState list,
                        \*      deleted  |-> ids the user deleted there]>>
    fireVerification,   \* the FireVerification page (FireVerification.tsx):
                        \*   <<>> while it is not open, else <<its state>>
    polls,              \* number of poll responses delivered
    switches,           \* number of sensor switches made
    hist                \* history of what the tracker did (observation only):
                        \*   opens, closes  transitions made so far
                        \*   closed         ids of the sessions closed, newest first
                        \*   evals          transitions made for the latest reading
                        \*   initial        sessions in the store at page load
                        \*   ingest         what the ingest effect last did since
                        \*                  the history was last cleared
                        \*   repeat         the poller's last delivery repeated
                        \*                  the one before
                        \*   since          Date.now() of the last change of the
                        \*                  monitored device

vars == <<sensorId, apiResponse, selectedSensorId, sensorReadings, mlPredictions,
          isMlProcessing, weatherData, currentSession, activeSessions,
          completedSessions, store, mlInflight, wxInflight, now, chg, view,
          faults, reports, fireVerification, polls, switches, hist>>

(***************************************************************************)
(* Bounds of the model.                                                    *)
(***************************************************************************)
MaxPolls == 3
MaxSwitches == 2
MaxEvents == 4

(***************************************************************************)
(* Program constants.                                                      *)
(***************************************************************************)
ReadingsWindow == 20
PredictionsWindow == 10
SessionReadingsCap == 50
SessionPredictionsCap == 20
SessionsCap == 10
NullTime == 0

(* the value of a numeric field the upstream record does not carry: the
   JavaScript undefined, written as a number no sensor reports *)
undefined == -999

(* !x for a number *)
Falsy(x) == x \in {0, undefined}

(***************************************************************************)
(* Generic helpers: Array.prototype.slice(0, n), Math.max, Math.min.       *)
(***************************************************************************)
Slice(s, n) == SubSeq(s, 1, IF Len(s) < n THEN Len(s) ELSE n)

MathMax(a, b) == IF a >= b THEN a ELSE b

MathMin(a, b) == IF a <= b THEN a ELSE b

(***************************************************************************)
(* The environment: the devices, the records the alert endpoint can        *)
(* return for them, the weather the weather endpoint can return and the    *)
(* categories the inference endpoint can return.                           *)
(***************************************************************************)
Devices == {"DEV-1", "DEV-2"}

Payload(d, f, t, h, s, ts) ==
    [deviceId |-> d, isFire |-> f, temp |-> t, humidity |-> h, smoke |-> s,
     timestamp |-> ts, latitude |-> 30, longitude |-> 78]

Payloads ==
    { Payload("DEV-1", TRUE, 41, 20, 80, 2),
      Payload("DEV-1", TRUE, 45, 15, 90, 3),
      Payload("DEV-1", FALSE, 23, 35, 6, 4),
      Payload("DEV-2", TRUE, 41, 20, 80, 2),
      Payload("DEV-2", FALSE, 23, 35, 6, 5) }

(* the four successive readings of the end-to-end example *)
ExampleReadings ==
    << Payload("DEV-1", FALSE, 22, 40, 5, 1),
       Payload("DEV-1", TRUE, 41, 20, 80, 2),
       Payload("DEV-1", TRUE, 45, 15, 90, 3),
       Payload("DEV-1", FALSE, 23, 35, 6, 4) >>

ApiWeather == [temp |-> 30, wind_speed |-> 4, wind_gust |-> 0]

Categories == {0, 1, 2}

(***************************************************************************)
(* processReadingWithWeather: the reading with the weather fields the      *)
(* inference payload needs attached.                                       *)
(***************************************************************************)
processReadingWithWeather(reading, weather) ==
    IF weather = <<>> THEN reading
    ELSE [reading EXCEPT !.weatherData =
            << [temp_max |-> weather[1].temp + 5,
                temp_min |-> weather[1].temp - 5,
                wind_speed |-> weather[1].wind_speed,
                wind_gust |-> weather[1].wind_gust] >>]

(***************************************************************************)
(* The reading the ingest effect builds from a poll response (name and     *)
(* status are functions of deviceId and isFire, id is read by no effect;   *)
(* the three are left out).                                                *)
(***************************************************************************)
NewReading(api, clock) ==
    [deviceId |-> api.deviceId,
     latitude |-> api.latitude,
     longitude |-> api.longitude,
     humidity |-> api.humidity,
     temp |-> api.temp,
     smoke |-> api.smoke,
     isFire |-> api.isFire,
     timestamp |-> IF api.timestamp = NullTime THEN clock ELSE api.timestamp,
     weatherData |-> <<>>]

(* mutation: the timestamps are not compared *)
isDuplicateReading_NoTimestamp(newReading, existingReadings) ==
    \E i \in 1..Len(existingReadings) :
        /\ existingReadings[i].temp = newReading.temp
        /\ existingReadings[i].humidity = newReading.humidity
        /\ existingReadings[i].smoke = newReading.smoke

(* mutation: the readings are compared as whole objects *)
isDuplicateReading_WholeObject(newReading, existingReadings) ==
    \E i \in 1..Len(existingReadings) : existingReadings[i] = newReading

(***************************************************************************)
(* isDuplicateReading: some held reading agrees on timestamp, temp,        *)
(* humidity and smoke.                                                     *)
(***************************************************************************)
isDuplicateReading(newReading, existingReadings) ==
    \E i \in 1..Len(existingReadings) :
        /\ existingReadings[i].timestamp = newReading.timestamp
        /\ existingReadings[i].temp = newReading.temp
        /\ existingReadings[i].humidity = newReading.humidity
        /\ existingReadings[i].smoke = newReading.smoke

(***************************************************************************)
(* processMlPrediction, up to the await: the record added in 'processing'  *)
(* state, with id `ml-${Date.now()}`.                                      *)
(***************************************************************************)
ProcessingPrediction(reading, clock) ==
    [id |-> clock,
     input_data |-> [temperature |-> reading.temp,
                     humidity |-> reading.humidity,
                     smoke |-> reading.smoke,
                     temp_max |-> reading.weatherData[1].temp_max,
                     temp_min |-> reading.weatherData[1].temp_min,
                     wind_speed |-> reading.weatherData[1].wind_speed,
                     wind_gust |-> reading.weatherData[1].wind_gust],
     prediction |-> 0,
     status |-> "processing"]

AddProcessing(prev, p) == <<p>> \o Slice(prev, PredictionsWindow - 1)

(* mutation: the result replaces the newest record, whatever its id *)
ApplyResult_Head(prev, id, result) ==
    [i \in 1..Len(prev) |-> IF i = 1 THEN result ELSE prev[i]]

(* processMlPrediction after the await: prev.map(p => p.id === id ? r : p) *)
ApplyResult(prev, id, result) ==
    [i \in 1..Len(prev) |-> IF prev[i].id = id THEN result ELSE prev[i]]

CompletedPrediction(processing, category) ==
    [processing EXCEPT !.prediction = category, !.status = "completed"]

(* mutation: the catch block leaves the record as it was *)
FailedPrediction_Swallowed(processing) == processing

FailedPrediction(processing) ==
    [processing EXCEPT !.status = "failed"]

(***************************************************************************)
(* Numbers.  The channels are integers; an average is the exact quotient   *)
(* sum / count, kept as a fraction in lowest terms so that equal numbers   *)
(* are equal values (41/1 = 2050/50).                                      *)
(***************************************************************************)
RECURSIVE Gcd(_, _)
Gcd(a, b) == IF b = 0 THEN a ELSE Gcd(b, a % b)

Quotient(n, d) ==
    LET g == Gcd(IF n < 0 THEN -n ELSE n, d)
    IN  [num |-> n \div g, den |-> d \div g]

Number(n) == [num |-> n, den |-> 1]

Leq(x, y) == x.num * y.den <= y.num * x.den

(* readings.reduce((sum, r) => sum + r[ch], 0): sum[i] is the accumulator
   after the first i readings *)
ReduceSum(readings, ch) ==
    LET sum[i \in 0..Len(readings)] ==
            IF i = 0 THEN 0 ELSE sum[i - 1] + readings[i][ch]
    IN  sum[Len(readings)]

(* mutation: the sum is divided by the cap, not by the length of the list *)
Average_OverCap(readings, ch) ==
    Quotient(ReduceSum(readings, ch), SessionReadingsCap)

Average(readings, ch) == Quotient(ReduceSum(readings, ch), Len(readings))

(***************************************************************************)
(* The session-tracking effect (LiveMonitoring.tsx 443-544), on the state  *)
(* of one render.                                                          *)
(***************************************************************************)
plainReading(latestReading) ==
    [deviceId |-> latestReading.deviceId,
     latitude |-> latestReading.latitude,
     longitude |-> latestReading.longitude,
     humidity |-> latestReading.humidity,
     temp |-> latestReading.temp,
     smoke |-> latestReading.smoke,
     isFire |-> latestReading.isFire,
     timestamp |-> latestReading.timestamp,
     weatherData |-> latestReading.weatherData]

(* the completed predictions whose input equals the reading's channels *)
recentMlPredictions(preds, latestReading) ==
    SelectSeq(preds, LAMBDA pred :
        /\ pred.input_data.temperature = latestReading.temp
        /\ pred.input_data.humidity = latestReading.humidity
        /\ pred.input_data.smoke = latestReading.smoke
        /\ pred.status = "completed")

(* mutation: every category other than 0 confirms *)
mlConfirmed_AnyRisk(preds, latestReading) ==
    \E i \in 1..Len(recentMlPredictions(preds, latestReading)) :
        recentMlPredictions(preds, latestReading)[i].prediction # 0

mlConfirmed(preds, latestReading) ==
    \E i \in 1..Len(recentMlPredictions(preds, latestReading)) :
        recentMlPredictions(preds, latestReading)[i].prediction = 1

shouldStartSession(preds, latestReading) ==
    latestReading.isFire \/ mlConfirmed(preds, latestReading)

(* mutation: the session starts when it is created, not when its first
   reading was taken *)
newSession_StartNow(preds, r, clock) ==
    [id |-> clock,
     deviceId |-> r.deviceId,
     startTime |-> clock,
     endTime |-> NullTime,
     readings |-> <<r>>,
     mlPredictions |-> recentMlPredictions(preds, r),
     maxTemp |-> r.temp, minTemp |-> r.temp, avgTemp |-> Number(r.temp),
     maxSmoke |-> r.smoke, minSmoke |-> r.smoke, avgSmoke |-> Number(r.smoke),
     maxHumidity |-> r.humidity, minHumidity |-> r.humidity,
     avgHumidity |-> Number(r.humidity),
     status |-> "active",
     mlConfirmed |-> mlConfirmed(preds, r)]

newSession(preds, r, clock) ==
    [id |-> clock,
     deviceId |-> r.deviceId,
     startTime |-> r.timestamp,
     endTime |-> NullTime,
     readings |-> <<r>>,
     mlPredictions |-> recentMlPredictions(preds, r),
     maxTemp |-> r.temp, minTemp |-> r.temp, avgTemp |-> Number(r.temp),
     maxSmoke |-> r.smoke, minSmoke |-> r.smoke, avgSmoke |-> Number(r.smoke),
     maxHumidity |-> r.humidity, minHumidity |-> r.humidity,
     avgHumidity |-> Number(r.humidity),
     status |-> "active",
     mlConfirmed |-> mlConfirmed(preds, r)]

(* mutation: the flag is recomputed from the new reading alone *)
ExtendConfirmed_Recomputed(cur, preds, r) == mlConfirmed(preds, r)

ExtendConfirmed(cur, preds, r) == cur.mlConfirmed \/ mlConfirmed(preds, r)

(* mutation: the extend branch keeps the old maximum temperature *)
updatedSession_StaleMax(cur, preds, r) ==
    LET rs == <<r>> \o Slice(cur.readings, SessionReadingsCap - 1)
    IN  [cur EXCEPT
            !.readings = rs,
            !.mlPredictions = Slice(recentMlPredictions(preds, r) \o cur.mlPredictions,
                                    SessionPredictionsCap),
            !.minTemp = MathMin(cur.minTemp, r.temp),
            !.maxSmoke = MathMax(cur.maxSmoke, r.smoke),
            !.minSmoke = MathMin(cur.minSmoke, r.smoke),
            !.maxHumidity = MathMax(cur.maxHumidity, r.humidity),
            !.minHumidity = MathMin(cur.minHumidity, r.humidity),
            !.mlConfirmed = ExtendConfirmed(cur, preds, r),
            !.avgTemp = Average(rs, "temp"),
            !.avgSmoke = Average(rs, "smoke"),
            !.avgHumidity = Average(rs, "humidity")]

updatedSession(cur, preds, r) ==
    LET rs == <<r>> \o Slice(cur.readings, SessionReadingsCap - 1)
    IN  [cur EXCEPT
            !.readings = rs,
            !.mlPredictions = Slice(recentMlPredictions(preds, r) \o cur.mlPredictions,
                                    SessionPredictionsCap),
            !.maxTemp = MathMax(cur.maxTemp, r.temp),
            !.minTemp = MathMin(cur.minTemp, r.temp),
            !.maxSmoke = MathMax(cur.maxSmoke, r.smoke),
            !.minSmoke = MathMin(cur.minSmoke, r.smoke),
            !.maxHumidity = MathMax(cur.maxHumidity, r.humidity),
            !.minHumidity = MathMin(cur.minHumidity, r.humidity),
            !.mlConfirmed = ExtendConfirmed(cur, preds, r),
            !.avgTemp = Average(rs, "temp"),
            !.avgSmoke = Average(rs, "smoke"),
            !.avgHumidity = Average(rs, "humidity")]

(* mutation: the extend branch leaves the active set as it was *)
ReplaceById_Stale(prev, updated) == prev

(* prev.map(session => session.id === updatedSession.id ? updatedSession : session) *)
ReplaceById(prev, updated) ==
    [i \in 1..Len(prev) |-> IF prev[i].id = updated.id THEN updated ELSE prev[i]]

(* mutation: the session is stamped with its last tracked reading *)
completedSession_LastTracked(cur, r) ==
    [cur EXCEPT !.endTime = cur.readings[1].timestamp, !.status = "completed"]

(* mutation: the closing reading is filed with the session *)
completedSession_WithClosing(cur, r) ==
    [cur EXCEPT !.endTime = r.timestamp, !.status = "completed",
                !.readings = <<r>> \o Slice(cur.readings, SessionReadingsCap - 1)]

completedSession(cur, r) ==
    [cur EXCEPT !.endTime = r.timestamp, !.status = "completed"]

(* mutation: the cap is applied to the old list only *)
WithCompleted_OffByOne(closed, prev) == <<closed>> \o Slice(prev, SessionsCap)

(* [completedSession, ...prev.slice(0, 9)] *)
WithCompleted(closed, prev) == <<closed>> \o Slice(prev, SessionsCap - 1)

(* mutation: the open branch does not look at currentSession *)
SessionBranch_OpenAlways(readings, cur, preds, weather) ==
    IF readings = <<>> \/ weather = <<>> THEN "none"
    ELSE IF shouldStartSession(preds, readings[1]) THEN "open"
    ELSE IF cur # <<>> THEN "close"
    ELSE "none"

(* mutation: the tracker waits while any prediction is still 'processing' *)
SessionBranch_WaitsForPredictions(readings, cur, preds, weather) ==
    IF readings = <<>> \/ weather = <<>> THEN "none"
    ELSE IF \E i \in 1..Len(preds) : preds[i].status = "processing" THEN "none"
    ELSE IF shouldStartSession(preds, readings[1]) /\ cur = <<>> THEN "open"
    ELSE IF shouldStartSession(preds, readings[1]) /\ cur # <<>> THEN "extend"
    ELSE IF ~shouldStartSession(preds, readings[1]) /\ cur # <<>> THEN "close"
    ELSE "none"

(* mutation: the tracker does not look at weatherData *)
SessionBranch_Ungated(readings, cur, preds, weather) ==
    IF readings = <<>> THEN "none"
    ELSE IF shouldStartSession(preds, readings[1]) /\ cur = <<>> THEN "open"
    ELSE IF shouldStartSession(preds, readings[1]) /\ cur # <<>> THEN "extend"
    ELSE IF ~shouldStartSession(preds, readings[1]) /\ cur # <<>> THEN "close"
    ELSE "none"

(* which branch of the effect a render takes *)
SessionBranch(readings, cur, preds, weather) ==
    IF readings = <<>> \/ weather = <<>> THEN "none"
    ELSE IF shouldStartSession(preds, readings[1]) /\ cur = <<>> THEN "open"
    ELSE IF shouldStartSession(preds, readings[1]) /\ cur # <<>> THEN "extend"
    ELSE IF ~shouldStartSession(preds, readings[1]) /\ cur # <<>> THEN "close"
    ELSE "none"

(***************************************************************************)
(* The session store: JSON.stringify drops a key whose value is undefined  *)
(* (a reading taken before any weather was held has no weatherData), and a *)
(* missing key reads back as undefined after JSON.parse.                   *)
(***************************************************************************)
StringifyReading(r) ==
    IF r.weatherData = <<>> THEN [f \in DOMAIN r \ {"weatherData"} |-> r[f]] ELSE r

(* mutation: a key missing from the stored text stays missing *)
ParseReading_AsStored(j) == j

ParseReading(j) ==
    IF "weatherData" \in DOMAIN j THEN j ELSE j @@ [weatherData |-> <<>>]

StringifySession(x) ==
    [x EXCEPT !.readings = [i \in 1..Len(x.readings) |-> StringifyReading(x.readings[i])]]

ParseSession(j) ==
    [j EXCEPT !.readings = [i \in 1..Len(j.readings) |-> ParseReading(j.readings[i])]]

JSONstringify(sessions) == [i \in 1..Len(sessions) |-> StringifySession(sessions[i])]

JSONparse(text) == [i \in 1..Len(text) |-> ParseSession(text[i])]

(***************************************************************************)
(* Sessions persisted by earlier visits of the page.                       *)
(***************************************************************************)
PriorReading(k) ==
    [deviceId |-> "DEV-1", latitude |-> 30, longitude |-> 78, humidity |-> 20,
     temp |-> 40, smoke |-> 70, isFire |-> TRUE, timestamp |-> -(2 * k),
     weatherData |-> <<>>]

PriorSession(k) ==
    completedSession(newSession(<<>>, PriorReading(k), -k),
                     [PriorReading(k) EXCEPT !.timestamp = 1 - 2 * k])

PriorSessions(n) == [i \in 1..n |-> PriorSession(i)]

InitialStoreSizes == {0, SessionsCap}

(***************************************************************************)
(* Dependency arrays of the effects.                                       *)
(***************************************************************************)
RouteDeps == {"mount", "sensorId"}
IngestDeps == {"mount", "apiResponse", "selectedSensorId", "weatherData"}
WeatherDeps == {"mount", "selectedSensorId", "sensorReadings"}
SessionDeps == {"mount", "sensorReadings", "currentSession", "mlPredictions",
                "weatherData"}

StorageFaults == {{"read"}, {"write"}}

Mount ==
    /\ sensorId = ""
    /\ apiResponse = <<>>
    /\ selectedSensorId = ""
    /\ sensorReadings = <<>>
    /\ mlPredictions = <<>>
    /\ isMlProcessing = FALSE
    /\ weatherData = <<>>
    /\ currentSession = <<>>
    /\ activeSessions = <<>>
    /\ completedSessions = <<>>
    /\ \E n \in InitialStoreSizes :
          /\ store = JSONstringify(PriorSessions(n))
          /\ hist = [opens |-> 0, closes |-> 0, evals |-> 0, closed |-> <<>>,
                     initial |-> n, repeat |-> FALSE, ingest |-> "none",
                     since |-> 0]
    /\ mlInflight = {}
    /\ wxInflight = 0
    /\ now = 1
    /\ chg = {"mount"}
    /\ view = "mounted"
    /\ reports = <<>>
    /\ fireVerification = <<>>
    /\ polls = 0
    /\ switches = 0

(* the page is opened in a browser whose localStorage works *)
Init == Mount /\ faults = {}

(* the page is opened in a browser whose localStorage is unreadable
   (blocked, or holding text that is not JSON) or full *)
InitStorage == Mount /\ faults \in StorageFaults

(***************************************************************************)
(* One commit.  S-values (unprimed) are the state of the render; each      *)
(* effect whose dependencies changed runs on them.                         *)
(***************************************************************************)
Render ==
    /\ view = "mounted"
    /\ chg # {}
    /\ LET runRoute == chg \cap RouteDeps # {} /\ sensorId # ""
           \* route effect: setSelectedSensorId(sensorId); setSensorReadings([])
           selA == IF runRoute THEN sensorId ELSE selectedSensorId
           rdA == IF runRoute THEN <<>> ELSE sensorReadings
           \* ingest effect
           runIngest == /\ chg \cap IngestDeps # {}
                        /\ apiResponse # <<>>
                        /\ selectedSensorId # ""
           reading == NewReading(apiResponse[1], now)
           accepted == runIngest /\ ~isDuplicateReading(reading, rdA)
           enhancedReading == processReadingWithWeather(reading, weatherData)
           rdB == IF accepted
                  THEN Slice(<<enhancedReading>> \o rdA, ReadingsWindow)
                  ELSE rdA
           request == accepted /\ weatherData # <<>>
           processing == ProcessingPrediction(enhancedReading, now)
           \* weather effect
           runWeather == /\ chg \cap WeatherDeps # {}
                         /\ selectedSensorId # ""
                         /\ sensorReadings # <<>>
                         /\ ~Falsy(sensorReadings[1].latitude)
                         /\ ~Falsy(sensorReadings[1].longitude)
           \* session effect
           branch == IF chg \cap SessionDeps # {}
                     THEN SessionBranch(sensorReadings, currentSession,
                                        mlPredictions, weatherData)
                     ELSE "none"
           r == plainReading(sensorReadings[1])
           opened == newSession(mlPredictions, r, now)
           extended == updatedSession(currentSession[1], mlPredictions, r)
           closed == completedSession(currentSession[1], r)
           \* neither the load effect (283) nor the close branch (540-541)
           \* catches what localStorage or JSON.parse throws
           throws == \/ "mount" \in chg /\ "read" \in faults
                     \/ branch = "close" /\ faults # {}
       IN
       IF throws
       THEN /\ view' = "crashed"
            /\ chg' = {}
            /\ UNCHANGED <<selectedSensorId, apiResponse, sensorReadings,
                           mlPredictions, isMlProcessing, mlInflight, wxInflight,
                           currentSession, activeSessions, completedSessions,
                           store, hist>>
       ELSE
       /\ view' = view
       /\ selectedSensorId' = selA
       /\ apiResponse' = IF selA # selectedSensorId THEN <<>> ELSE apiResponse
       /\ sensorReadings' = rdB
       /\ mlPredictions' = IF request THEN AddProcessing(mlPredictions, processing)
                           ELSE mlPredictions
       /\ isMlProcessing' = (request \/ isMlProcessing)
       /\ mlInflight' = IF request THEN mlInflight \cup {processing} ELSE mlInflight
       /\ wxInflight' = IF runWeather THEN wxInflight + 1 ELSE wxInflight
       /\ currentSession' = CASE branch = "open" -> <<opened>>
                              [] branch = "extend" -> <<extended>>
                              [] branch = "close" -> <<>>
                              [] OTHER -> currentSession
       /\ activeSessions' =
            CASE branch = "open" -> Append(activeSessions, opened)
              [] branch = "extend" -> ReplaceById(activeSessions, extended)
              [] branch = "close" ->
                   SelectSeq(activeSessions, LAMBDA x : x.id # closed.id)
              [] OTHER -> activeSessions
       /\ completedSessions' =
            IF "mount" \in chg THEN JSONparse(store)
            ELSE IF branch = "close"
            THEN WithCompleted(closed, completedSessions)
            ELSE completedSessions
       /\ store' = IF branch = "close"
                   THEN JSONstringify(WithCompleted(closed, JSONparse(store)))
                   ELSE store
       /\ chg' = (IF selA # selectedSensorId THEN {"selectedSensorId", "apiResponse"} ELSE {})
                 \cup (IF runRoute \/ accepted THEN {"sensorReadings"} ELSE {})
                 \cup (IF request THEN {"mlPredictions"} ELSE {})
                 \cup (IF branch # "none" THEN {"currentSession"} ELSE {})
       /\ hist' = [hist EXCEPT
                     !.opens = @ + (IF branch = "open" THEN 1 ELSE 0),
                     !.closes = @ + (IF branch = "close" THEN 1 ELSE 0),
                     !.closed = IF branch = "close" THEN <<closed.id>> \o @ ELSE @,
                     !.ingest = IF runIngest
                                THEN (IF accepted THEN "accepted" ELSE "duplicate")
                                ELSE IF runRoute THEN "none" ELSE @,
                     !.evals = IF accepted \/ runRoute THEN 0
                               ELSE IF branch = "none" THEN @
                               ELSE IF @ >= 2 THEN 2 ELSE @ + 1]
    /\ UNCHANGED <<sensorId, weatherData, now, faults, reports, fireVerification,
                   polls, switches>>

(***************************************************************************)
(* Run to completion.  A commit takes far less time than a network round   *)
(* trip, the 5 s poll period or a click, so the environment acts on a      *)
(* state whose commits have run their course: either nothing is left to    *)
(* render, or the only thing left is the session effect re-running on its  *)
(* own setCurrentSession and producing the same session again.             *)
(***************************************************************************)
Settled ==
    \/ chg = {}
    \/ /\ chg = {"currentSession"}
       /\ currentSession # <<>>
       /\ Len(currentSession[1].readings) = SessionReadingsCap
       /\ SessionBranch(sensorReadings, currentSession, mlPredictions, weatherData)
             = "extend"
       /\ updatedSession(currentSession[1], mlPredictions,
                         plainReading(sensorReadings[1])) = currentSession[1]

(***************************************************************************)
(* The poll (refetchInterval 5000) stores the record the endpoint returned *)
(* (Respond); the endpoint returns the record of the selected device       *)
(* (Deliver).                                                              *)
(***************************************************************************)
Respond(payload) ==
    /\ view = "mounted"
    /\ selectedSensorId # ""
    /\ Settled
    /\ apiResponse' = <<payload>>
    /\ chg' = chg \cup {"apiResponse"}
    /\ polls' = polls + 1
    /\ now' = now + 1
    /\ hist' = [hist EXCEPT
                    !.repeat = (apiResponse = <<payload>> /\ hist.ingest # "none")]
    /\ UNCHANGED <<sensorId, selectedSensorId, sensorReadings, mlPredictions,
                   isMlProcessing, weatherData, currentSession, activeSessions,
                   completedSessions, store, mlInflight, wxInflight, view,
                   faults, reports, fireVerification, switches>>

Deliver(payload) ==
    /\ payload.deviceId = selectedSensorId
    /\ Respond(payload)

PollDeliver(payload) ==
    /\ polls < MaxPolls
    /\ polls + switches < MaxEvents
    /\ Deliver(payload)

(***************************************************************************)
(* fetchWeatherData after the await: setWeatherData on success, only a     *)
(* console message on failure.                                             *)
(***************************************************************************)
WeatherResolve(ok) ==
    /\ view = "mounted"
    /\ wxInflight > 0
    /\ Settled
    /\ wxInflight' = wxInflight - 1
    /\ weatherData' = IF ok THEN <<ApiWeather>> ELSE weatherData
    /\ chg' = IF ok THEN chg \cup {"weatherData"} ELSE chg
    /\ UNCHANGED <<sensorId, apiResponse, selectedSensorId, sensorReadings,
                   mlPredictions, isMlProcessing, currentSession, activeSessions,
                   completedSessions, store, mlInflight, now, view, faults, reports,
                   fireVerification,
                   polls,
                   switches, hist>>

(***************************************************************************)
(* processMlPrediction after the await: the record with the request's id   *)
(* is replaced by the completed or the failed one; finally clears the      *)
(* processing indicator.                                                   *)
(***************************************************************************)
MlResolve(req, ok, category) ==
    /\ view = "mounted"
    /\ req \in mlInflight
    /\ Settled
    /\ mlInflight' = mlInflight \ {req}
    /\ mlPredictions' = ApplyResult(mlPredictions, req.id,
                                    IF ok THEN CompletedPrediction(req, category)
                                    ELSE FailedPrediction(req))
    /\ isMlProcessing' = FALSE
    /\ chg' = chg \cup {"mlPredictions"}
    /\ UNCHANGED <<sensorId, apiResponse, selectedSensorId, sensorReadings,
                   weatherData, currentSession, activeSessions, completedSessions,
                   store, wxInflight, now, view, faults, reports, fireVerification,
                   polls, switches, hist>>

(***************************************************************************)
(* handleManualSensorSelect(deviceId)                                      *)
(***************************************************************************)
HandleManualSensorSelect(deviceId) ==
    /\ view = "mounted"
    /\ switches < MaxSwitches
    /\ polls + switches < MaxEvents
    /\ Settled
    /\ selectedSensorId' = deviceId
    /\ sensorReadings' = <<>>
    /\ mlPredictions' = <<>>
    /\ weatherData' = <<>>
    /\ sensorId' = deviceId
    /\ apiResponse' = IF deviceId # selectedSensorId THEN <<>> ELSE apiResponse
    /\ chg' = chg \cup {"sensorReadings", "mlPredictions"}
                  \cup (IF deviceId # selectedSensorId
                        THEN {"selectedSensorId", "apiResponse"} ELSE {})
                  \cup (IF weatherData # <<>> THEN {"weatherData"} ELSE {})
                  \cup (IF deviceId # sensorId THEN {"sensorId"} ELSE {})
    /\ switches' = switches + 1
    /\ now' = now + 1
    /\ hist' = [hist EXCEPT !.evals = 0, !.ingest = "none", !.repeat = FALSE,
                            !.since = IF deviceId # selectedSensorId
                                      THEN now + 1 ELSE @]
    /\ UNCHANGED <<isMlProcessing, currentSession, activeSessions,
                   completedSessions, store, mlInflight, wxInflight, view,
                   faults, reports, fireVerification,
                   polls>>

(***************************************************************************)
(* Navigation to /monitoring/:sensorId from elsewhere in the application.  *)
(***************************************************************************)
RouteChange(deviceId) ==
    /\ view = "mounted"
    /\ switches < MaxSwitches
    /\ polls + switches < MaxEvents
    /\ Settled
    /\ deviceId # sensorId
    /\ sensorId' = deviceId
    /\ chg' = chg \cup {"sensorId"}
    /\ switches' = switches + 1
    /\ now' = now + 1
    /\ hist' = [hist EXCEPT !.since = now + 1]
    /\ UNCHANGED <<apiResponse, selectedSensorId, sensorReadings, mlPredictions,
                   isMlProcessing, weatherData, currentSession, activeSessions,
                   completedSessions, store, mlInflight, wxInflight, view,
                   faults, reports, fireVerification,
                   polls>>

Next ==
    \/ Render
    \/ \E payload \in Payloads : PollDeliver(payload)
    \/ \E ok \in BOOLEAN : WeatherResolve(ok)
    \/ \E req \in mlInflight, ok \in BOOLEAN, category \in Categories :
          MlResolve(req, ok, category)
    \/ \E deviceId \in Devices : HandleManualSensorSelect(deviceId)
    \/ \E deviceId \in Devices : RouteChange(deviceId)

Spec == Init /\ [][Next]_vars

(* the same page over a localStorage that fails *)
SpecStorage == InitStorage /\ [][Next]_vars

(***************************************************************************)
(* The end-to-end example: the page is opened on /monitoring/DEV-1, the    *)
(* poll returns the four example readings in order and the inference       *)
(* endpoint never reports a fire.                                          *)
(***************************************************************************)
ExamplePoll ==
    /\ polls < Len(ExampleReadings)
    /\ Deliver(ExampleReadings[polls + 1])

NextExample ==
    \/ Render
    \/ ExamplePoll
    \/ \E ok \in BOOLEAN : WeatherResolve(ok)
    \/ \E req \in mlInflight, ok \in BOOLEAN : MlResolve(req, ok, 0)
    \/ RouteChange("DEV-1")

SpecExample == Init /\ [][NextExample]_vars

(***************************************************************************)
(* The reading-ingest effect on its own.  DEV-1 is monitored, the weather  *)
(* endpoint is down (so no prediction is requested and the tracker does    *)
(* not act), and the history holds the n readings accepted so far, which   *)
(* differ in their timestamps 1..n.  The endpoint then returns candidates  *)
(* that repeat a held or an evicted reading, differ from one in a compared *)
(* or in a not compared field, or lack fields.                             *)
(***************************************************************************)
MaxIngestPolls == 3

WindowSizes == {0, ReadingsWindow - 1, ReadingsWindow}

WindowPayload(k) == Payload("DEV-1", FALSE, 20, 40, 5, k)

Window(n) == [i \in 1..n |-> NewReading(WindowPayload(n + 1 - i), n + 2 - i)]

Candidates ==
    { WindowPayload(1),
      WindowPayload(ReadingsWindow),
      WindowPayload(ReadingsWindow + 1),
      [WindowPayload(1) EXCEPT !.temp = 21],
      [WindowPayload(1) EXCEPT !.deviceId = "DEV-2", !.isFire = TRUE,
                               !.latitude = 31, !.longitude = 79],
      [WindowPayload(1) EXCEPT !.temp = undefined],
      [WindowPayload(ReadingsWindow + 1) EXCEPT
            !.humidity = undefined, !.smoke = undefined,
            !.latitude = undefined, !.longitude = undefined],
      [WindowPayload(ReadingsWindow + 1) EXCEPT !.timestamp = NullTime] }

InitIngest ==
    \E n \in WindowSizes :
        /\ sensorId = "DEV-1"
        /\ selectedSensorId = "DEV-1"
        /\ apiResponse = IF n = 0 THEN <<>> ELSE <<WindowPayload(n)>>
        /\ sensorReadings = Window(n)
        /\ mlPredictions = <<>>
        /\ isMlProcessing = FALSE
        /\ weatherData = <<>>
        /\ currentSession = <<>>
        /\ activeSessions = <<>>
        /\ completedSessions = <<>>
        /\ store = JSONstringify(<<>>)
        /\ mlInflight = {}
        /\ wxInflight = 0
        /\ now = n + 2
        /\ chg = {}
        /\ view = "mounted"
        /\ faults = {}
        /\ reports = <<>>
        /\ fireVerification = <<>>
        /\ polls = 0
        /\ switches = 1
        /\ hist = [opens |-> 0, closes |-> 0, evals |-> 0, closed |-> <<>>,
                   initial |-> 0, repeat |-> FALSE,
                   ingest |-> IF n = 0 THEN "none" ELSE "accepted", since |-> 2]

IngestPoll(payload) ==
    /\ polls < MaxIngestPolls
    /\ Respond(payload)

NextIngest ==
    \/ Render
    \/ \E payload \in Candidates : IngestPoll(payload)
    \/ WeatherResolve(FALSE)

SpecIngest == InitIngest /\ [][NextIngest]_vars

(***************************************************************************)
(* The Reports page (Reports.tsx), open in another tab of the same         *)
(* browser while the example runs in this one: its load effect copies the  *)
(* store into its own state, confirmDelete writes that copy back without   *)
(* the deleted session.                                                    *)
(***************************************************************************)
MaxDeletes == 1

ReportsLoad ==
    /\ reports = <<>>
    /\ reports' = <<[sessions |-> JSONparse(store), deleted |-> {}]>>
    /\ UNCHANGED <<sensorId, apiResponse, selectedSensorId, sensorReadings,
                   mlPredictions, isMlProcessing, weatherData, currentSession,
                   activeSessions, completedSessions, store, mlInflight,
                   wxInflight, now, chg, view, faults, fireVerification, polls,
                   switches, hist>>

confirmDelete(sessionToDelete) ==
    /\ reports # <<>>
    /\ Cardinality(reports[1].deleted) < MaxDeletes
    /\ \E i \in 1..Len(reports[1].sessions) :
          reports[1].sessions[i].id = sessionToDelete
    /\ LET updatedSessions ==
              SelectSeq(reports[1].sessions, LAMBDA x : x.id # sessionToDelete)
       IN  /\ reports' = <<[sessions |-> updatedSessions,
                            deleted |-> reports[1].deleted \cup {sessionToDelete}]>>
           /\ store' = JSONstringify(updatedSessions)
    /\ UNCHANGED <<sensorId, apiResponse, selectedSensorId, sensorReadings,
                   mlPredictions, isMlProcessing, weatherData, currentSession,
                   activeSessions, completedSessions, mlInflight, wxInflight,
                   now, chg, view, faults, fireVerification, polls,
                   switches, hist>>

(* the sessions the user may pick in the list: the newest and the oldest *)
Deletable ==
    IF reports = <<>> \/ reports[1].sessions = <<>> THEN {}
    ELSE {reports[1].sessions[1].id,
          reports[1].sessions[Len(reports[1].sessions)].id}

NextReports ==
    \/ Render
    \/ ExamplePoll
    \/ WeatherResolve(TRUE)
    \/ \E req \in mlInflight : MlResolve(req, TRUE, 0)
    \/ RouteChange("DEV-1")
    \/ ReportsLoad
    \/ \E sessionToDelete \in Deletable : confirmDelete(sessionToDelete)

SpecReports == Init /\ [][NextReports]_vars

(***************************************************************************)
(* An upstream whose records are not ordered in time: the timestamp of a   *)
(* reading is the one in the payload, and the endpoint may return a record *)
(* stamped earlier than the one it returned before (a record written late, *)
(* a device whose clock was set back).  DEV-1 is monitored.                *)
(***************************************************************************)
UnorderedPayloads ==
    { Payload("DEV-1", TRUE, 41, 20, 80, 3),
      Payload("DEV-1", FALSE, 23, 35, 6, 2) }

NextUnordered ==
    \/ Render
    \/ \E payload \in UnorderedPayloads : PollDeliver(payload)
    \/ \E ok \in BOOLEAN : WeatherResolve(ok)
    \/ \E req \in mlInflight, ok \in BOOLEAN, category \in Categories :
          MlResolve(req, ok, category)
    \/ RouteChange("DEV-1")

SpecUnordered == Init /\ [][NextUnordered]_vars

(***************************************************************************)
(* A clock that does not advance between two responses.  Date.now() has    *)
(* the resolution of the browser's clock (a millisecond, up to 100 ms      *)
(* where the browser coarsens it), and react-query stores a response for   *)
(* the interval poll as well as for a refetch on window focus or           *)
(* reconnect, so two responses can be stored within one tick.  DEV-1 is    *)
(* monitored.                                                              *)
(***************************************************************************)
PollDeliverSameTick(payload) ==
    /\ polls < MaxPolls
    /\ polls + switches < MaxEvents
    /\ payload.deviceId = selectedSensorId
    /\ view = "mounted"
    /\ selectedSensorId # ""
    /\ Settled
    /\ apiResponse' = <<payload>>
    /\ chg' = chg \cup {"apiResponse"}
    /\ polls' = polls + 1
    /\ hist' = [hist EXCEPT
                    !.repeat = (apiResponse = <<payload>> /\ hist.ingest # "none")]
    /\ UNCHANGED <<sensorId, selectedSensorId, sensorReadings, mlPredictions,
                   isMlProcessing, weatherData, currentSession, activeSessions,
                   completedSessions, store, mlInflight, wxInflight, now, view,
                   faults, reports, fireVerification, switches>>

NextSameTick ==
    \/ Render
    \/ \E payload \in Payloads : PollDeliver(payload)
    \/ \E payload \in Payloads : PollDeliverSameTick(payload)
    \/ \E ok \in BOOLEAN : WeatherResolve(ok)
    \/ \E req \in mlInflight, ok \in BOOLEAN, category \in Categories :
          MlResolve(req, ok, category)
    \/ RouteChange("DEV-1")

SpecSameTick == Init /\ [][NextSameTick]_vars

(***************************************************************************)
(* A request that hangs: the end-to-end example with an inference endpoint *)
(* that never answers the request made for the second reading (fetch has   *)
(* no timeout, LiveMonitoring.tsx 118-147) and answers the others.         *)
(* Fairness: React commits a scheduled update; the interval poll fires     *)
(* while the page is mounted; a request that is answered settles.          *)
(***************************************************************************)
Hung(req) == req.input_data.temperature = ExampleReadings[2].temp

MlResolveAnswered ==
    \E req \in mlInflight, ok \in BOOLEAN, category \in Categories :
        /\ ~Hung(req)
        /\ MlResolve(req, ok, category)

NextHung ==
    \/ Render
    \/ ExamplePoll
    \/ \E ok \in BOOLEAN : WeatherResolve(ok)
    \/ MlResolveAnswered
    \/ RouteChange("DEV-1")

SpecHung ==
    /\ Init
    /\ [][NextHung]_vars
    /\ WF_vars(Render)
    /\ WF_vars(ExamplePoll)
    /\ WF_vars(MlResolveAnswered)

(***************************************************************************)
(* The FireVerification page (FireVerification.tsx), a route of its own:   *)
(* its useState cells, the react-query result it reads, the inference      *)
(* requests it has in flight (each with the reading and the forest check   *)
(* its promise callback closed over), and its clock.                       *)
(***************************************************************************)
MaxVerificationPolls == 3
MaxVerificationSelects == 2

VerificationReadingsWindow == 11
VerificationPredictionsWindow == 6

(* the places UTTARAKHAND_FOREST_BOUNDARIES encloses, among those the
   records name *)
ForestPoints == {<<30, 78>>}

checkIfInForest(lat, lng) == <<lat, lng>> \in ForestPoints

VerificationReading(api, clock) ==
    [deviceId |-> api.deviceId,
     latitude |-> api.latitude,
     longitude |-> api.longitude,
     humidity |-> api.humidity,
     temp |-> api.temp,
     smoke |-> api.smoke,
     isFire |-> api.isFire,
     timestamp |-> IF api.timestamp = NullTime THEN clock ELSE api.timestamp]

(* processMlPrediction up to the await: id `ml-api-${Date.now()}` *)
VerificationProcessing(reading, clock) ==
    [id |-> clock,
     input_data |-> [temperature |-> reading.temp,
                     humidity |-> reading.humidity,
                     smoke |-> reading.smoke,
                     temp_max |-> reading.temp + 5,
                     temp_min |-> reading.temp - 5,
                     wind_speed |-> 5,
                     wind_gust |-> 7],
     prediction |-> 0,
     status |-> "processing"]

(* the verdict the promise callback computes *)
finalVerdict(sensorAlert, mlPrediction, inForest) ==
    IF sensorAlert /\ mlPrediction = 1 /\ inForest
    THEN [finalVerdict |-> "CONFIRMED", confidence |-> 95]
    ELSE IF sensorAlert /\ mlPrediction = 1
    THEN [finalVerdict |-> "CONFIRMED", confidence |-> 85]
    ELSE IF ~sensorAlert /\ mlPrediction = 0
    THEN [finalVerdict |-> "FALSE_ALARM", confidence |-> 90]
    ELSE IF sensorAlert /\ ~inForest
    THEN [finalVerdict |-> "FALSE_ALARM", confidence |-> 75]
    ELSE IF mlPrediction = 2
    THEN [finalVerdict |-> "INCONCLUSIVE", confidence |-> 60]
    ELSE [finalVerdict |-> "INCONCLUSIVE", confidence |-> 50]

VerificationResult(sensorAlert, mlPrediction, inForest) ==
    [sensorAlert |-> sensorAlert,
     mlPrediction |-> mlPrediction,
     inForest |-> inForest,
     finalVerdict |-> finalVerdict(sensorAlert, mlPrediction, inForest).finalVerdict,
     confidence |-> finalVerdict(sensorAlert, mlPrediction, inForest).confidence]

(* the page is opened: the useState initialisers; the effects of the first
   commit find no response and no reading and do nothing.  verified is
   observation only: the reading the stored result was computed from. *)
VerificationMount ==
    /\ fireVerification = <<>>
    /\ fireVerification' =
          <<[selectedSensorId |-> "",
             apiResponse |-> <<>>,
             sensorReadings |-> <<>>,
             mlPredictions |-> <<>>,
             isMlProcessing |-> FALSE,
             verificationResult |-> <<>>,
             inflight |-> {},
             now |-> 1,
             chg |-> {},
             polls |-> 0,
             selects |-> 0,
             verified |-> <<>>]>>
    /\ UNCHANGED <<sensorId, apiResponse, selectedSensorId, sensorReadings,
                   mlPredictions, isMlProcessing, weatherData, currentSession,
                   activeSessions, completedSessions, store, mlInflight,
                   wxInflight, now, chg, view, faults, reports, polls, switches,
                   hist>>

(* onClick={() => setSelectedSensorId(sensor.deviceId)}: a new query key,
   whose data is undefined until its first response *)
VerificationSelect(deviceId) ==
    /\ fireVerification # <<>>
    /\ fireVerification[1].chg = {}
    /\ fireVerification[1].selects < MaxVerificationSelects
    /\ deviceId # fireVerification[1].selectedSensorId
    /\ fireVerification' =
          <<[fireVerification[1] EXCEPT
                !.selectedSensorId = deviceId,
                !.apiResponse = <<>>,
                !.chg = {"selectedSensorId", "apiResponse"},
                !.selects = @ + 1,
                !.now = @ + 1]>>
    /\ UNCHANGED <<sensorId, apiResponse, selectedSensorId, sensorReadings,
                   mlPredictions, isMlProcessing, weatherData, currentSession,
                   activeSessions, completedSessions, store, mlInflight,
                   wxInflight, now, chg, view, faults, reports, polls, switches,
                   hist>>

(* the 5 s poll stores a response; a response equal to the one held keeps
   the reference of the one held (react-query's structural sharing) and
   re-runs no effect *)
VerificationPoll(payload) ==
    /\ fireVerification # <<>>
    /\ fireVerification[1].chg = {}
    /\ fireVerification[1].polls < MaxVerificationPolls
    /\ fireVerification[1].selectedSensorId # ""
    /\ payload.deviceId = fireVerification[1].selectedSensorId
    /\ fireVerification[1].apiResponse # <<payload>>
    /\ fireVerification' =
          <<[fireVerification[1] EXCEPT
                !.apiResponse = <<payload>>,
                !.chg = {"apiResponse"},
                !.polls = @ + 1,
                !.now = @ + 1]>>
    /\ UNCHANGED <<sensorId, apiResponse, selectedSensorId, sensorReadings,
                   mlPredictions, isMlProcessing, weatherData, currentSession,
                   activeSessions, completedSessions, store, mlInflight,
                   wxInflight, now, chg, view, faults, reports, polls, switches,
                   hist>>

(* one commit of the page: the ingest effect (deps apiResponse,
   selectedSensorId) and the verification effect (deps sensorReadings) run
   on the state of the render *)
VerificationRender ==
    /\ fireVerification # <<>>
    /\ fireVerification[1].chg # {}
    /\ LET s == fireVerification[1]
           runIngest == /\ s.chg \cap {"apiResponse", "selectedSensorId"} # {}
                        /\ s.apiResponse # <<>>
                        /\ s.selectedSensorId # ""
           newReading == VerificationReading(s.apiResponse[1], s.now)
           runVerification == "sensorReadings" \in s.chg /\ s.sensorReadings # <<>>
           latestReading == s.sensorReadings[1]
           forestCheck == checkIfInForest(latestReading.latitude,
                                          latestReading.longitude)
           request == runVerification /\ latestReading.isFire
           direct == runVerification /\ ~latestReading.isFire
           processing == VerificationProcessing(latestReading, s.now)
       IN  fireVerification' =
             <<[s EXCEPT
                  !.sensorReadings =
                      IF runIngest
                      THEN <<newReading>> \o Slice(@, VerificationReadingsWindow - 1)
                      ELSE @,
                  !.mlPredictions =
                      IF request
                      THEN <<processing>> \o Slice(@, VerificationPredictionsWindow - 1)
                      ELSE @,
                  !.isMlProcessing = (request \/ @),
                  !.inflight =
                      IF request
                      THEN @ \cup {[prediction |-> processing,
                                    latestReading |-> latestReading,
                                    inForest |-> forestCheck]}
                      ELSE @,
                  !.verificationResult =
                      IF direct
                      THEN <<[sensorAlert |-> FALSE, mlPrediction |-> 0,
                              inForest |-> forestCheck,
                              finalVerdict |-> "FALSE_ALARM", confidence |-> 90]>>
                      ELSE @,
                  !.verified = IF direct THEN <<latestReading>> ELSE @,
                  !.chg = IF runIngest THEN {"sensorReadings"} ELSE {}]>>
    /\ UNCHANGED <<sensorId, apiResponse, selectedSensorId, sensorReadings,
                   mlPredictions, isMlProcessing, weatherData, currentSession,
                   activeSessions, completedSessions, store, mlInflight,
                   wxInflight, now, chg, view, faults, reports, polls, switches,
                   hist>>

(* processMlPrediction after the await, and the .then callback of the
   verification effect: on success the verdict computed from the reading
   the callback closed over is stored *)
VerificationResolve(req, ok, category) ==
    /\ fireVerification # <<>>
    /\ fireVerification[1].chg = {}
    /\ req \in fireVerification[1].inflight
    /\ fireVerification' =
          <<[fireVerification[1] EXCEPT
                !.inflight = @ \ {req},
                !.mlPredictions =
                    ApplyResult(@, req.prediction.id,
                                IF ok THEN CompletedPrediction(req.prediction, category)
                                ELSE FailedPrediction(req.prediction)),
                !.isMlProcessing = FALSE,
                !.verificationResult =
                    IF ok
                    THEN <<VerificationResult(req.latestReading.isFire, category,
                                              req.inForest)>>
                    ELSE @,
                !.verified = IF ok THEN <<req.latestReading>> ELSE @]>>
    /\ UNCHANGED <<sensorId, apiResponse, selectedSensorId, sensorReadings,
                   mlPredictions, isMlProcessing, weatherData, currentSession,
                   activeSessions, completedSessions, store, mlInflight,
                   wxInflight, now, chg, view, faults, reports, polls, switches,
                   hist>>

VerificationInflight ==
    IF fireVerification = <<>> THEN {} ELSE fireVerification[1].inflight

NextVerification ==
    \/ VerificationMount
    \/ \E deviceId \in Devices : VerificationSelect(deviceId)
    \/ \E payload \in Payloads : VerificationPoll(payload)
    \/ VerificationRender
    \/ \E req \in VerificationInflight, ok \in BOOLEAN, category \in Categories :
          VerificationResolve(req, ok, category)

SpecVerification == Init /\ [][NextVerification]_vars

(***************************************************************************)
(*                               Properties                                *)
(***************************************************************************)
ActiveFor(d) ==
    {i \in 1..Len(activeSessions) :
        activeSessions[i].status = "active" /\ activeSessions[i].deviceId = d}

(* C1: in every reachable state the active-session list holds at most one
   session with status 'active' for any deviceId, whatever readings of
   whatever devices were delivered and however the monitored device was
   switched. *)
C1_SingleActiveSessionPerDevice ==
    \A d \in Devices : Cardinality(ActiveFor(d)) <= 1

(* C1 witness: a session is active while the monitored device is another one
   and a qualifying reading of that other device has just been evaluated. *)
C1_Witness ==
    /\ currentSession # <<>>
    /\ Cardinality(ActiveFor(currentSession[1].deviceId)) = 1
    /\ selectedSensorId # currentSession[1].deviceId
    /\ sensorReadings # <<>>
    /\ sensorReadings[1].deviceId = selectedSensorId
    /\ weatherData # <<>>
    /\ shouldStartSession(mlPredictions, sensorReadings[1])
    /\ chg \cap {"sensorReadings", "weatherData", "mlPredictions"} = {}

Bounded(x) ==
    /\ Leq(Number(x.minTemp), x.avgTemp) /\ Leq(x.avgTemp, Number(x.maxTemp))
    /\ Leq(Number(x.minSmoke), x.avgSmoke) /\ Leq(x.avgSmoke, Number(x.maxSmoke))
    /\ Leq(Number(x.minHumidity), x.avgHumidity)
    /\ Leq(x.avgHumidity, Number(x.maxHumidity))

(* C2: after the open transition and after every extend transition, also
   once the 50-reading cap has evicted readings from the window the average
   is taken over, min <= avg <= max holds for temperature, smoke and
   humidity of the session. *)
C2_AggregateBounds ==
    /\ currentSession # <<>> => Bounded(currentSession[1])
    /\ \A i \in 1..Len(activeSessions) : Bounded(activeSessions[i])

(* C2 witness: a session extended past the cap, with the reading that set
   its minimum temperature evicted from the window the average is taken
   over, so that the minimum is no longer attained by any retained reading. *)
C2_Witness ==
    /\ currentSession # <<>>
    /\ Len(currentSession[1].readings) = SessionReadingsCap
    /\ \A i \in 1..SessionReadingsCap :
          currentSession[1].readings[i].temp # currentSession[1].minTemp
    /\ ~Leq(currentSession[1].avgTemp, Number(currentSession[1].minTemp))

(***************************************************************************)
(* The accepted readings since the page was opened are fire, fire, clear   *)
(* (most recent first in sensorReadings), no completed category-1          *)
(* prediction is correlated to the clear reading, and every commit and     *)
(* every weather request has run its course.                               *)
(***************************************************************************)
FireFireClear ==
    /\ polls = 3
    /\ switches = 1
    /\ Len(sensorReadings) = 3
    /\ sensorReadings[3].isFire
    /\ sensorReadings[2].isFire
    /\ ~sensorReadings[1].isFire
    /\ ~mlConfirmed(mlPredictions, sensorReadings[1])
    /\ chg = {}
    /\ wxInflight = 0

ClosedByLatest ==
    /\ hist.opens = 1
    /\ hist.closes = 1
    /\ currentSession = <<>>
    /\ activeSessions = <<>>
    /\ completedSessions # <<>>
    /\ completedSessions[1].endTime = sensorReadings[1].timestamp
    /\ completedSessions[1].status = "completed"
    /\ completedSessions[1].startTime \in
          {sensorReadings[2].timestamp, sensorReadings[3].timestamp}

(* C3 as stated: from no session, the accepted sequence fire, fire, clear
   (no completed category-1 prediction correlated to clear) produces exactly
   one session, closed with endTime = the clear reading's timestamp and
   status 'completed', and leaves no active session. *)
C3_CloseOnClear_Original ==
    FireFireClear => ClosedByLatest

(* C3 amended: the same, provided weather data was held when the clear
   reading was accepted (it then carries weatherData); while no weather
   data is held the tracker does not act and no session is produced. *)
C3_CloseOnClear ==
    /\ (FireFireClear /\ sensorReadings[1].weatherData # <<>>) => ClosedByLatest
    /\ (FireFireClear /\ weatherData = <<>>) => hist.opens = 0

(* C3 witness: fire, fire, clear were accepted with weather held and the one
   session they produced is closed. *)
C3_Witness ==
    /\ FireFireClear
    /\ sensorReadings[1].weatherData # <<>>
    /\ ClosedByLatest
    /\ Len(completedSessions[1].readings) >= 2

(***************************************************************************)
(* The end-to-end example, under SpecExample.  Accepted(n): exactly the    *)
(* first n example readings have been accepted, the later ones with        *)
(* weather held.                                                           *)
(***************************************************************************)
Accepted(n) ==
    /\ Len(sensorReadings) = n
    /\ \A i \in 1..n :
          /\ sensorReadings[n + 1 - i].temp = ExampleReadings[i].temp
          /\ sensorReadings[n + 1 - i].timestamp = ExampleReadings[i].timestamp
          /\ i > 1 => sensorReadings[n + 1 - i].weatherData # <<>>

Evaluated ==
    /\ currentSession # <<>>
    /\ currentSession[1].readings[1].timestamp = sensorReadings[1].timestamp

(* C4: for DEV-1 with no fire prediction, the readings 22 (clear), 41 (fire),
   45 (fire), 23 (clear) give: no session after reading 1; after reading 2
   one active session with maxTemp = 41; after reading 3 the same session
   with maxTemp = 45 and avgTemp = 43; after reading 4 that session closed
   with endTime = reading 4's timestamp and exactly 2 readings. *)
C4_EndToEndExample ==
    /\ Accepted(1) => (currentSession = <<>> /\ hist.opens = 0)
    /\ (Accepted(2) /\ Evaluated) =>
          /\ Len(activeSessions) = 1
          /\ currentSession[1].maxTemp = 41
    /\ (Accepted(3) /\ Evaluated) =>
          /\ hist.opens = 1
          /\ currentSession[1].maxTemp = 45
          /\ currentSession[1].avgTemp = Number(43)
    /\ (Accepted(4) /\ hist.closes = 1) =>
          /\ hist.opens = 1
          /\ completedSessions[1].endTime = ExampleReadings[4].timestamp
          /\ Len(completedSessions[1].readings) = 2

(* C5: the transition rule is evaluated once per accepted reading: the
   latest accepted reading has caused at most one open / extend / close
   transition, however often the weather data, the prediction list or the
   current-session object changed since it was accepted. *)
C5_OncePerAcceptedReading ==
    hist.evals <= 1

(***************************************************************************)
(* The poller has delivered the response it delivered last time and the    *)
(* commit that will feed it to the ingest effect is due.                   *)
(***************************************************************************)
RepeatDue ==
    /\ hist.repeat
    /\ "apiResponse" \in chg
    /\ apiResponse # <<>>

(* C6: a reading delivered twice in a row by the poller makes one state
   transition: the commit of the second delivery leaves the reading history,
   the prediction list, the active and completed sessions and the persisted
   store unchanged and issues no prediction request. *)
C6_DuplicateSuppression ==
    [][(RepeatDue /\ Render) =>
          UNCHANGED <<sensorReadings, mlPredictions, mlInflight, currentSession,
                      activeSessions, completedSessions, store>>]_vars

(* C6 witness: the second delivery of a reading has been committed and was
   recognised as a duplicate, with weather held (so that an accepted reading
   would have issued a prediction request) and a session active. *)
C6_Witness ==
    /\ hist.repeat
    /\ "apiResponse" \notin chg
    /\ hist.ingest = "duplicate"
    /\ weatherData # <<>>
    /\ sensorReadings # <<>>
    /\ currentSession # <<>>

(* C7: once mlConfirmed is true for the active session, every later step
   that keeps the session leaves it true, whatever predictions are
   correlated to the new reading, and the step that closes the session
   files it with mlConfirmed true. *)
C7_StickyConfirmation ==
    [][(currentSession # <<>> /\ currentSession[1].mlConfirmed) =>
          IF currentSession' # <<>>
          THEN /\ currentSession'[1].id = currentSession[1].id
               /\ currentSession'[1].mlConfirmed
          ELSE /\ completedSessions'[1].id = currentSession[1].id
               /\ completedSessions'[1].mlConfirmed]_vars

(* C7 witness: a confirmed session has been extended by a reading that no
   completed category-1 prediction is correlated to. *)
C7_Witness ==
    /\ currentSession # <<>>
    /\ currentSession[1].mlConfirmed
    /\ sensorReadings # <<>>
    /\ currentSession[1].readings[1] = plainReading(sensorReadings[1])
    /\ ~mlConfirmed(mlPredictions, sensorReadings[1])
    /\ \E i \in 1..Len(currentSession[1].readings) :
          currentSession[1].readings[i] # currentSession[1].readings[1]

(***************************************************************************)
(* The sessions closed by this view, newest first, followed by the ones    *)
(* found in the store when the page was opened, cut to the cap.            *)
(***************************************************************************)
Ids(sessions) == [i \in 1..Len(sessions) |-> sessions[i].id]

ExpectedIds ==
    Slice(hist.closed \o Ids(PriorSessions(hist.initial)), SessionsCap)

(* C8: after any number of closures the persisted collection and the
   in-memory completed list each hold exactly min(closures + initial, N)
   sessions (N = 10), most recently closed first, and loading the store
   returns that sequence. *)
C8_CapEnforcement ==
    "mount" \notin chg =>
        /\ Len(store) = MathMin(hist.closes + hist.initial, SessionsCap)
        /\ Len(completedSessions) = MathMin(hist.closes + hist.initial, SessionsCap)
        /\ Ids(JSONparse(store)) = ExpectedIds
        /\ Ids(completedSessions) = ExpectedIds
        /\ \A i, j \in 1..Len(store) : store[i].id = store[j].id => i = j

(* C8 witness: two sessions were closed on top of a full store, so that the
   two oldest persisted sessions were dropped. *)
C8_Witness ==
    /\ hist.initial = SessionsCap
    /\ hist.closes = 2
    /\ Len(store) = SessionsCap
    /\ store[1].id = hist.closed[1]
    /\ store[2].id = hist.closed[2]
    /\ store[SessionsCap].id = PriorSession(SessionsCap - 2).id

SessionsInMemory ==
    currentSession \o activeSessions
        \o SubSeq(completedSessions, 1, MathMin(hist.closes, Len(completedSessions)))

(* C9: every reading in a session's readings list has the deviceId of the
   session, also after the monitored sensor was switched while the session
   was active. *)
C9_SessionScopedToOneDevice ==
    \A i \in 1..Len(SessionsInMemory) :
        \A k \in 1..Len(SessionsInMemory[i].readings) :
            SessionsInMemory[i].readings[k].deviceId = SessionsInMemory[i].deviceId

(* C10: no reading of a device B opens, extends or closes a session of a
   different device A: every step that changes the current session of A
   evaluates a reading of A. *)
C10_DeviceIndependence ==
    [][(currentSession # <<>> /\ currentSession' # currentSession) =>
          sensorReadings[1].deviceId = currentSession[1].deviceId]_vars

(***************************************************************************)
(* One record of the prediction list across a step: unchanged, or the same *)
(* request going from 'processing' to 'completed' or 'failed'.             *)
(***************************************************************************)
Terminal == {"completed", "failed"}

LifecycleStep(a, b) ==
    \/ a = b
    \/ /\ a.id = b.id
       /\ a.input_data = b.input_data
       /\ a.status = "processing"
       /\ b.status \in Terminal

(* C11: a prediction record enters the list with status 'processing'; across
   every step each retained record keeps its status or goes from
   'processing' to 'completed' or 'failed', so a 'completed' or 'failed'
   record never changes again and a record changes status at most once; the
   only other changes of the list are the window dropping its oldest record
   and a sensor switch emptying it. *)
C11_PredictionLifecycle ==
    [][\/ mlPredictions' = <<>>
       \/ /\ Len(mlPredictions') = Len(mlPredictions)
          /\ \A i \in 1..Len(mlPredictions) :
                LifecycleStep(mlPredictions[i], mlPredictions'[i])
       \/ /\ mlPredictions' # <<>>
          /\ mlPredictions'[1].status = "processing"
          /\ Tail(mlPredictions') = Slice(mlPredictions, PredictionsWindow - 1)]_vars

(* C11 witness: two requests were issued and both have resolved, the newer to
   'completed' and the older to 'failed'. *)
C11_Witness ==
    /\ Len(mlPredictions) = 2
    /\ mlInflight = {}
    /\ mlPredictions[1].status = "completed"
    /\ mlPredictions[2].status = "failed"
    /\ mlPredictions[1].id # mlPredictions[2].id

(***************************************************************************)
(* A commit that accepts a reading carrying weather context; the requests  *)
(* a step issues.                                                          *)
(***************************************************************************)
AcceptsWithWeather ==
    /\ Render
    /\ sensorReadings' # <<>>
    /\ sensorReadings' # sensorReadings
    /\ sensorReadings'[1].weatherData # <<>>

Issued == mlInflight' \ mlInflight

(* C12: when an inference call fails, the record of that request (if still
   retained) becomes 'failed' and nothing else changes: readings and
   sessions are untouched and no request is issued; a request is only ever
   issued by a commit that accepts a reading (never again for a reading
   already held, whatever became of its request), and every commit that
   accepts a reading with weather context issues exactly one request, for
   that reading, also after earlier requests failed. *)
C12_FailureHandling ==
    [][/\ \A req \in mlInflight :
             MlResolve(req, FALSE, 0) =>
                /\ \A i \in 1..Len(mlPredictions) :
                      mlPredictions[i].id = req.id =>
                          mlPredictions'[i] = [mlPredictions[i] EXCEPT !.status = "failed"]
                /\ Issued = {}
                /\ UNCHANGED <<sensorReadings, currentSession, activeSessions,
                               completedSessions, store>>
       /\ Issued # {} =>
             /\ Render
             /\ sensorReadings' # <<>>
             /\ sensorReadings' # sensorReadings \/ "sensorId" \in chg
       /\ AcceptsWithWeather =>
             /\ Cardinality(Issued) = 1
             /\ \A p \in Issued :
                   /\ p = mlPredictions'[1]
                   /\ p.status = "processing"
                   /\ p.input_data.temperature = sensorReadings'[1].temp
                   /\ p.input_data.humidity = sensorReadings'[1].humidity
                   /\ p.input_data.smoke = sensorReadings'[1].smoke]_vars

(* C12 witness: a request has failed and its record says so, nothing is in
   flight or left to commit for the held readings, and the poller has just
   delivered a new reading while weather is held. *)
C12_Witness ==
    /\ mlInflight = {}
    /\ \E i \in 1..Len(mlPredictions) : mlPredictions[i].status = "failed"
    /\ weatherData # <<>>
    /\ chg \cap {"apiResponse", "weatherData", "sensorId", "selectedSensorId"}
          = {"apiResponse"}
    /\ apiResponse # <<>>
    /\ sensorReadings # <<>>
    /\ ~isDuplicateReading(NewReading(apiResponse[1], now), sensorReadings)

(***************************************************************************)
(* The commit that is due will take the close branch of the tracker.       *)
(***************************************************************************)
CloseDue ==
    /\ chg \cap SessionDeps # {}
    /\ SessionBranch(sensorReadings, currentSession, mlPredictions, weatherData)
          = "close"

(* C13: over a localStorage whose reads or writes throw, no commit
   interrupts tracking (the view stays mounted, at page load as well as at
   a session close), and the commit that closes a session still updates the
   in-memory state: the session leaves the active set and becomes the head
   of the completed list. *)
C13_StorageFailureDegradation ==
    [][Render =>
          /\ view' = "mounted"
          /\ CloseDue =>
                /\ currentSession' = <<>>
                /\ \A i \in 1..Len(activeSessions') :
                      activeSessions'[i].id # currentSession[1].id
                /\ completedSessions' # <<>>
                /\ completedSessions'[1].id = currentSession[1].id]_vars

(***************************************************************************)
(* A request issued before the monitored device last changed (its id is    *)
(* the Date.now() of its issue).                                           *)
(***************************************************************************)
Stale(req) == req.id < hist.since

(* C14: a prediction result that resolves after the monitored device has
   changed is not applied: the step in which a request issued for the
   previously monitored device resolves leaves the prediction list of the
   view unchanged. *)
C14_StaleResultDiscard ==
    [][\A req \in mlInflight :
          (Stale(req) /\ req \notin mlInflight') => mlPredictions' = mlPredictions]_vars

StoredIds == {store[i].id : i \in 1..Len(store)}

DeletedIds == IF reports = <<>> THEN {} ELSE reports[1].deleted

(* C15: the persisted collection is written by the tracker's close
   transition only, so a session persisted by a close stays in the
   collection: every session this view has closed (fewer than the cap of
   10) is in the store, unless the user deleted that very session. *)
C15_SoleWriter ==
    \A i \in 1..Len(hist.closed) :
        i <= SessionsCap => hist.closed[i] \in StoredIds \cup DeletedIds

(***************************************************************************)
(* The commit that is due feeds the poll response to the ingest effect;    *)
(* the candidate it builds; the fields the filter is said to compare.      *)
(***************************************************************************)
IngestDue ==
    /\ chg \cap IngestDeps # {}
    /\ chg \cap RouteDeps = {}
    /\ apiResponse # <<>>
    /\ selectedSensorId # ""

Candidate == NewReading(apiResponse[1], now)

Key(r) == <<r.timestamp, r.temp, r.humidity, r.smoke>>

HeldKeys == {Key(sensorReadings[i]) : i \in 1..Len(sensorReadings)}

(* C16: isDuplicateReading(candidate, history) is true exactly when a
   reading of the retained window agrees with the candidate on timestamp,
   temp, humidity and smoke, whatever their deviceId, isFire and location,
   and whatever readings the window held before; the ingest effect rejects
   the candidate in exactly that case and otherwise puts it at the head of
   the window, which keeps its 20 most recent readings. *)
C16_DuplicateFilterRule ==
    [][(IngestDue /\ Render) =>
          /\ isDuplicateReading(Candidate, sensorReadings)
                <=> Key(Candidate) \in HeldKeys
          /\ (sensorReadings' = sensorReadings) <=> Key(Candidate) \in HeldKeys
          /\ Key(Candidate) \notin HeldKeys =>
                /\ Len(sensorReadings') = MathMin(Len(sensorReadings) + 1, ReadingsWindow)
                /\ Key(sensorReadings'[1]) = Key(Candidate)
                /\ Tail(sensorReadings') = Slice(sensorReadings, ReadingsWindow - 1)]_vars

(* C16 witness: the reading with timestamp 1 was evicted from the full
   window by a newer one and then accepted again; after that a candidate
   that agrees with it on the four fields but differs in deviceId, isFire
   and location was rejected. *)
C16_Witness ==
    /\ Len(sensorReadings) = ReadingsWindow
    /\ sensorReadings[1].timestamp = 1
    /\ sensorReadings[2].timestamp = ReadingsWindow + 1
    /\ chg = {}
    /\ hist.ingest = "duplicate"
    /\ apiResponse[1].deviceId # sensorReadings[1].deviceId
    /\ apiResponse[1].isFire # sensorReadings[1].isFire
    /\ Key(Candidate) = Key(sensorReadings[1])

Default(x, d) == IF x = undefined THEN d ELSE x

(* C17: the reading the ingestor accepts has every field populated: a
   humidity, temp or smoke the payload lacks is 0, a timestamp it lacks is
   the ingestion time, the other fields are the payload's. *)
C17_IngestorDefaulting ==
    [][(IngestDue /\ Render /\ sensorReadings' # sensorReadings) =>
          /\ sensorReadings'[1].humidity = Default(apiResponse[1].humidity, 0)
          /\ sensorReadings'[1].temp = Default(apiResponse[1].temp, 0)
          /\ sensorReadings'[1].smoke = Default(apiResponse[1].smoke, 0)
          /\ sensorReadings'[1].timestamp =
                IF apiResponse[1].timestamp = NullTime THEN now
                ELSE apiResponse[1].timestamp
          /\ sensorReadings'[1].deviceId = apiResponse[1].deviceId
          /\ sensorReadings'[1].isFire = apiResponse[1].isFire]_vars

(***************************************************************************)
(* The commit that is due runs the session effect on a reading; the latest *)
(* reading qualifies as the property has it; the step opens a session with *)
(* the latest reading or extends the current one by it.                    *)
(***************************************************************************)
SessionDue ==
    /\ chg \cap SessionDeps # {}
    /\ sensorReadings # <<>>

Qualifies ==
    \/ sensorReadings[1].isFire
    \/ \E i \in 1..Len(mlPredictions) :
          /\ mlPredictions[i].input_data.temperature = sensorReadings[1].temp
          /\ mlPredictions[i].input_data.humidity = sensorReadings[1].humidity
          /\ mlPredictions[i].input_data.smoke = sensorReadings[1].smoke
          /\ mlPredictions[i].status = "completed"
          /\ mlPredictions[i].prediction = 1

Opens ==
    /\ sensorReadings # <<>>
    /\ currentSession = <<>>
    /\ currentSession' # <<>>
    /\ currentSession'[1].readings = <<plainReading(sensorReadings[1])>>

Extends ==
    /\ sensorReadings # <<>>
    /\ currentSession # <<>>
    /\ currentSession' # <<>>
    /\ currentSession'[1].id = currentSession[1].id
    /\ currentSession'[1].readings =
          <<plainReading(sensorReadings[1])>>
              \o Slice(currentSession[1].readings, SessionReadingsCap - 1)

(* C18 as stated: the commit that evaluates a reading opens or extends a
   session if and only if the reading has isFire = true or a prediction
   correlated to it is 'completed' with prediction = 1. *)
C18_TrackingPredicate_Original ==
    [][(SessionDue /\ Render) => ((Opens \/ Extends) <=> Qualifies)]_vars

(* C18 amended: the same while weather data is held; while none is held the
   commit neither opens nor extends (nor closes) a session, whatever the
   reading and its predictions are. *)
C18_TrackingPredicate ==
    [][(SessionDue /\ Render) =>
          IF weatherData # <<>>
          THEN (Opens \/ Extends) <=> Qualifies
          ELSE currentSession' = currentSession]_vars

(* C18 witness: a session was opened for a reading with isFire = false on
   the strength of a completed category-1 prediction correlated to it; the
   commit that accepted the reading, its prediction still 'processing', had
   opened none. *)
C18_Witness ==
    /\ currentSession # <<>>
    /\ sensorReadings # <<>>
    /\ ~sensorReadings[1].isFire
    /\ Qualifies
    /\ currentSession[1].startTime = sensorReadings[1].timestamp
    /\ currentSession[1].readings[1] = plainReading(sensorReadings[1])
    /\ currentSession[1].mlConfirmed

(***************************************************************************)
(* The episode is in two pieces: the reading that closed the last session  *)
(* (a reading with isFire = false) is also the one the current session was *)
(* opened with.                                                            *)
(***************************************************************************)
Fragmented ==
    /\ currentSession # <<>>
    /\ hist.closes >= 1
    /\ completedSessions # <<>>
    /\ completedSessions[1].id = hist.closed[1]
    /\ ~currentSession[1].readings[Len(currentSession[1].readings)].isFire
    /\ completedSessions[1].endTime = currentSession[1].startTime
    /\ completedSessions[1].deviceId = currentSession[1].deviceId

(* C19: a reading with isFire = false that arrives while a session is
   active and whose prediction then completes with fire risk does not split
   the episode: it never both closes the active session and opens a new
   one. *)
C19_Hysteresis ==
    ~Fragmented

(***************************************************************************)
(* avg is the arithmetic mean of channel ch over the list: avg * n = sum.  *)
(***************************************************************************)
IsMean(avg, readings, ch) ==
    avg.num * Len(readings) = ReduceSum(readings, ch) * avg.den

MeansOverReadings(x) ==
    /\ IsMean(x.avgTemp, x.readings, "temp")
    /\ IsMean(x.avgSmoke, x.readings, "smoke")
    /\ IsMean(x.avgHumidity, x.readings, "humidity")

ExtremaStep(old, new, r) ==
    /\ new.maxTemp = MathMax(old.maxTemp, r.temp)
    /\ new.minTemp = MathMin(old.minTemp, r.temp)
    /\ new.maxSmoke = MathMax(old.maxSmoke, r.smoke)
    /\ new.minSmoke = MathMin(old.minSmoke, r.smoke)
    /\ new.maxHumidity = MathMax(old.maxHumidity, r.humidity)
    /\ new.minHumidity = MathMin(old.minHumidity, r.humidity)

(* C20: the extend transition prepends the reading to the session's
   readings and keeps the 50 most recent, takes each max / min from the
   prior extremum and the new reading, and sets each average to the
   arithmetic mean over exactly the retained readings: every commit in
   which the tracker evaluates a qualifying reading while a session is
   active does so, every step that changes a session it keeps is such an
   extension, and no session ever holds more than 50 readings. *)
C20_ExtendTransition ==
    [][/\ (SessionDue /\ Render /\ weatherData # <<>> /\ Qualifies
             /\ currentSession # <<>>) => Extends
       /\ (currentSession # <<>> /\ currentSession' # <<>>
             /\ currentSession' # currentSession) => (Extends /\ Qualifies)
       /\ Extends =>
             /\ ExtremaStep(currentSession[1], currentSession'[1], sensorReadings[1])
             /\ MeansOverReadings(currentSession'[1])
             /\ Len(currentSession'[1].readings)
                   = MathMin(Len(currentSession[1].readings) + 1, SessionReadingsCap)
             /\ \E i \in 1..Len(activeSessions') :
                   activeSessions'[i] = currentSession'[1]
       /\ \A i \in 1..Len(completedSessions') :
             Len(completedSessions'[i].readings) <= SessionReadingsCap]_vars

(* C20 witness: a session at the cap was extended by a reading that differs
   from the ones it held, so that the oldest reading was dropped and the
   extrema and the means moved. *)
C20_Witness ==
    /\ currentSession # <<>>
    /\ Len(currentSession[1].readings) = SessionReadingsCap
    /\ sensorReadings # <<>>
    /\ currentSession[1].readings[1] = plainReading(sensorReadings[1])
    /\ currentSession[1].readings[2] # currentSession[1].readings[1]
    /\ currentSession[1].readings[3] = currentSession[1].readings[2]
    /\ currentSession[1].maxTemp > currentSession[1].minTemp
    /\ currentSession[1].avgTemp.den > 1

(***************************************************************************)
(* A completed category-1 prediction is correlated to the latest reading;  *)
(* session x is seeded from reading r alone.                               *)
(***************************************************************************)
ConfirmedByPrediction ==
    \E i \in 1..Len(mlPredictions) :
        /\ mlPredictions[i].input_data.temperature = sensorReadings[1].temp
        /\ mlPredictions[i].input_data.humidity = sensorReadings[1].humidity
        /\ mlPredictions[i].input_data.smoke = sensorReadings[1].smoke
        /\ mlPredictions[i].status = "completed"
        /\ mlPredictions[i].prediction = 1

SeededFrom(x, r) ==
    /\ x.deviceId = r.deviceId
    /\ x.startTime = r.timestamp
    /\ x.endTime = NullTime
    /\ x.status = "active"
    /\ x.readings = <<plainReading(r)>>
    /\ x.maxTemp = r.temp /\ x.minTemp = r.temp /\ x.avgTemp = Number(r.temp)
    /\ x.maxSmoke = r.smoke /\ x.minSmoke = r.smoke /\ x.avgSmoke = Number(r.smoke)
    /\ x.maxHumidity = r.humidity /\ x.minHumidity = r.humidity
    /\ x.avgHumidity = Number(r.humidity)

(* C21: every commit in which the tracker evaluates a qualifying reading
   while no session is active creates a session, and every step that creates
   a session does so for a qualifying reading, with startTime = the
   reading's timestamp, endTime null, status 'active', readings = exactly
   that reading, max = min = avg = the reading's value on each channel and
   mlConfirmed = whether a completed category-1 prediction is correlated to
   the reading; the new session is the one added to the active set. *)
C21_OpenTransition ==
    [][/\ (SessionDue /\ Render /\ weatherData # <<>> /\ Qualifies
             /\ currentSession = <<>>) => currentSession' # <<>>
       /\ (currentSession = <<>> /\ currentSession' # <<>>) =>
             /\ Render
             /\ Qualifies
             /\ SeededFrom(currentSession'[1], sensorReadings[1])
             /\ currentSession'[1].mlConfirmed = ConfirmedByPrediction
             /\ activeSessions' = Append(activeSessions, currentSession'[1])]_vars

(* C21 witness: a session has just been opened by a reading with isFire =
   true whose own prediction is still 'processing': it holds that one
   reading and is not ML-confirmed. *)
C21_Witness ==
    /\ currentSession # <<>>
    /\ sensorReadings # <<>>
    /\ "currentSession" \in chg
    /\ SeededFrom(currentSession[1], sensorReadings[1])
    /\ sensorReadings[1].isFire
    /\ ~currentSession[1].mlConfirmed
    /\ mlPredictions # <<>>
    /\ mlPredictions[1].status = "processing"
    /\ mlPredictions[1].input_data.temperature = sensorReadings[1].temp
    /\ activeSessions = currentSession

(* C22: every commit in which the tracker evaluates a non-qualifying
   reading while a session is active closes that session, and every step
   that closes a session does so for a non-qualifying reading: the session,
   with endTime = the reading's timestamp and status 'completed' and
   otherwise as it was (the closing reading is not among its readings),
   leaves the active set and becomes the head of the completed list and of
   the persisted collection, each in front of its 9 most recent others; the
   session was neither closed nor persisted before. *)
C22_CloseTransition ==
    [][/\ (SessionDue /\ Render /\ weatherData # <<>> /\ ~Qualifies
             /\ currentSession # <<>>) => currentSession' = <<>>
       /\ (currentSession # <<>> /\ currentSession' = <<>>) =>
             /\ Render
             /\ ~Qualifies
             /\ completedSessions' # <<>>
             /\ completedSessions'[1] =
                   [currentSession[1] EXCEPT
                       !.endTime = sensorReadings[1].timestamp,
                       !.status = "completed"]
             /\ completedSessions'[1].readings = currentSession[1].readings
             /\ Tail(completedSessions') = Slice(completedSessions, SessionsCap - 1)
             /\ \A i \in 1..Len(activeSessions') :
                   activeSessions'[i].id # currentSession[1].id
             /\ store' # <<>>
             /\ store'[1] = StringifySession(completedSessions'[1])
             /\ Tail(store') = Slice(store, SessionsCap - 1)
             /\ currentSession[1].id \notin StoredIds
             /\ \A i \in 1..Len(hist.closed) :
                   hist.closed[i] # currentSession[1].id]_vars

(* C22 witness: a session was closed by a later reading with isFire = false
   on top of a full store: it heads the completed list and the store,
   carries the closing reading's timestamp and does not hold the closing
   reading. *)
C22_Witness ==
    /\ hist.initial = SessionsCap
    /\ hist.closes = 1
    /\ currentSession = <<>>
    /\ activeSessions = <<>>
    /\ sensorReadings # <<>>
    /\ ~sensorReadings[1].isFire
    /\ Len(store) = SessionsCap
    /\ store[1].id = hist.closed[1]
    /\ completedSessions[1].id = hist.closed[1]
    /\ completedSessions[1].status = "completed"
    /\ completedSessions[1].endTime = sensorReadings[1].timestamp
    /\ \A k \in 1..Len(completedSessions[1].readings) :
          completedSessions[1].readings[k] # plainReading(sensorReadings[1])
    /\ completedSessions[1].startTime < completedSessions[1].endTime

(* C23: every closed session, in the completed list and in the store, has
   endTime >= startTime, whatever timestamps the records of the upstream
   carry and in whatever order the poller delivers them. *)
C23_TimeOrder ==
    /\ \A i \in 1..Len(completedSessions) :
          completedSessions[i].endTime >= completedSessions[i].startTime
    /\ \A i \in 1..Len(store) : store[i].endTime >= store[i].startTime

(***************************************************************************)
(* No two retained predictions have the same id.                           *)
(***************************************************************************)
UniqueIds ==
    \A i, j \in 1..Len(mlPredictions) :
        mlPredictions[i].id = mlPredictions[j].id => i = j

(* C24: the ids of the retained predictions are unique, and the step in
   which a request resolves changes no record of the list other than the
   one created for that request, also when two requests were issued without
   the clock advancing between them. *)
C24_UpdateByIdentity ==
    [][/\ UniqueIds'
       /\ \A req \in mlInflight :
             req \notin mlInflight' =>
                /\ Len(mlPredictions') = Len(mlPredictions)
                /\ \A i \in 1..Len(mlPredictions) :
                      mlPredictions'[i] # mlPredictions[i] =>
                          mlPredictions[i] = req]_vars

(***************************************************************************)
(* The request made for the second example reading is in flight; the two   *)
(* later readings have been served while it still is: both were accepted,  *)
(* the request of each was issued and has reached 'completed' or 'failed', *)
(* and the session the second reading opened was extended by the third and *)
(* closed by the fourth.                                                   *)
(***************************************************************************)
HungInFlight == \E req \in mlInflight : Hung(req)

TerminalFor(reading) ==
    \E i \in 1..Len(mlPredictions) :
        /\ mlPredictions[i].input_data.temperature = reading.temp
        /\ mlPredictions[i].status \in Terminal

LaterReadingsServed ==
    /\ HungInFlight
    /\ \E i \in 1..Len(mlPredictions) :
          /\ mlPredictions[i].input_data.temperature = ExampleReadings[2].temp
          /\ mlPredictions[i].status = "processing"
    /\ Len(sensorReadings) = Len(ExampleReadings)
    /\ \A req \in mlInflight : Hung(req)
    /\ TerminalFor(ExampleReadings[3])
    /\ TerminalFor(ExampleReadings[4])
    /\ \E i \in 1..Len(completedSessions) :
          /\ completedSessions[i].startTime = ExampleReadings[2].timestamp
          /\ completedSessions[i].maxTemp = ExampleReadings[3].temp
          /\ completedSessions[i].endTime = ExampleReadings[4].timestamp

(* C25: a prediction request that never resolves blocks nothing: from any
   state in which it is in flight, the readings delivered later are
   accepted, their requests are issued and reach 'completed' or 'failed',
   and the session is opened, extended and closed by them, while the hung
   request is still 'processing'. *)
C25_HungPredictionBlocksNothing ==
    HungInFlight ~> LaterReadingsServed

(* C25 witness: the later readings have been served around the hung request,
   the request of the third reading having failed and that of the fourth
   having completed. *)
C25_Witness ==
    /\ LaterReadingsServed
    /\ \E i \in 1..Len(mlPredictions) :
          /\ mlPredictions[i].input_data.temperature = ExampleReadings[3].temp
          /\ mlPredictions[i].status = "failed"
    /\ \E i \in 1..Len(mlPredictions) :
          /\ mlPredictions[i].input_data.temperature = ExampleReadings[4].temp
          /\ mlPredictions[i].status = "completed"

(* C26: while no weather data is held, no step opens, extends or closes a
   session (the current session, the active set, the completed list and the
   store stay as they are, but for the completed list being loaded from the
   store at mount) and no step issues a prediction request, whatever
   readings are accepted. *)
C26_WeatherGating ==
    [][weatherData = <<>> =>
          /\ UNCHANGED <<currentSession, activeSessions, store>>
          /\ "mount" \notin chg => UNCHANGED completedSessions
          /\ Issued = {}
          /\ \A i \in 1..Len(mlPredictions') :
                \E j \in 1..Len(mlPredictions) :
                    mlPredictions'[i].id = mlPredictions[j].id]_vars

(* C26 witness: the sensor was switched while a session was active, which
   dropped the weather data, and the weather call for the reading accepted
   since has failed: that reading, with isFire = false, was committed and
   neither closed the session nor had a prediction requested. *)
C26_Witness ==
    /\ weatherData = <<>>
    /\ wxInflight = 0
    /\ chg = {}
    /\ currentSession # <<>>
    /\ currentSession[1].status = "active"
    /\ activeSessions = currentSession
    /\ sensorReadings # <<>>
    /\ ~sensorReadings[1].isFire
    /\ ~Qualifies
    /\ mlPredictions = <<>>
    /\ hist.closes = 0

(***************************************************************************)
(* Sessions a and b have the same id, readings and aggregates.             *)
(***************************************************************************)
Mirrors(a, b) ==
    /\ a.id = b.id
    /\ a.readings = b.readings
    /\ a.maxTemp = b.maxTemp /\ a.minTemp = b.minTemp /\ a.avgTemp = b.avgTemp
    /\ a.maxSmoke = b.maxSmoke /\ a.minSmoke = b.minSmoke
    /\ a.avgSmoke = b.avgSmoke
    /\ a.maxHumidity = b.maxHumidity /\ a.minHumidity = b.minHumidity
    /\ a.avgHumidity = b.avgHumidity

(* C27: in every reachable state the active-session list is empty when
   currentSession is null and otherwise holds exactly one element, which has
   currentSession's id, readings and aggregates. *)
C27_ActiveSetMirrorsCurrent ==
    IF currentSession = <<>>
    THEN activeSessions = <<>>
    ELSE /\ Len(activeSessions) = 1
         /\ Mirrors(activeSessions[1], currentSession[1])

(* C27 witness: a second session is active after the first was closed, and
   it has been extended since it was opened: the active set holds that
   session alone, as the current session has it. *)
C27_Witness ==
    /\ hist.closes >= 1
    /\ currentSession # <<>>
    /\ Len(activeSessions) = 1
    /\ Mirrors(activeSessions[1], currentSession[1])
    /\ currentSession[1].id # hist.closed[1]
    /\ Len(currentSession[1].readings) > 1
    /\ chg = {}

(* C28: once the view has loaded the store at mount, and with the view as
   the only writer, the in-memory completed list and the collection read
   back from the store are the same sequence, element for element, after
   every close (and between closes). *)
C28_MemoryAgreesWithStore ==
    "mount" \notin chg =>
        /\ Len(completedSessions) = Len(store)
        /\ \A i \in 1..Len(completedSessions) :
              completedSessions[i] = JSONparse(store)[i]

(* C28 witness: a session whose readings were taken before any weather data
   was held (the stored text has no weatherData key for them) was closed on
   top of a full store, and the two lists agree on it and on the nine
   sessions behind it. *)
C28_Witness ==
    /\ "mount" \notin chg
    /\ hist.initial = SessionsCap
    /\ hist.closes = 1
    /\ Len(completedSessions) = SessionsCap
    /\ completedSessions[1].id = hist.closed[1]
    /\ completedSessions[1].readings[1].weatherData = <<>>
    /\ "weatherData" \notin DOMAIN store[1].readings[1]
    /\ completedSessions = JSONparse(store)
    /\ completedSessions[SessionsCap] = PriorSession(SessionsCap - 1)

(* C29: isMlProcessing is true whenever at least one prediction request is
   in flight; in particular the resolution of the first of two overlapping
   requests does not clear it. *)
C29_ProcessingIndicator ==
    mlInflight # {} => isMlProcessing

(***************************************************************************)
(* The step stores a verification result.                                  *)
(***************************************************************************)
StoresVerdict ==
    /\ fireVerification # <<>>
    /\ fireVerification' # <<>>
    /\ \/ fireVerification'[1].verificationResult
             # fireVerification[1].verificationResult
       \/ fireVerification'[1].verified # fireVerification[1].verified

(* C30: in the fire-verification view every stored verification result is
   the verdict of the most recent reading: no step stores a verdict
   computed from an older reading than the latest one held. *)
C30_VerdictFreshness ==
    [][StoresVerdict =>
          fireVerification'[1].verified
              = <<fireVerification'[1].sensorReadings[1]>>]_vars

====
